---- MODULE Spec2Model ----
(***************************************************************************)
(* StreamRadar: the polling / notification core.                           *)
(*                                                                         *)
(*   Spec        NotificationService with its per-entry check_stream_loop  *)
(*               tasks and the operations that register or cancel them.    *)
(*   SpecTicks   the check_stream_loop tasks alone, over more ticks.       *)
(*   SpecStreak  one check_stream_loop task alone, over a longer run.      *)
(*   SpecPoll    NotificationService's polling path: _check_streams_loop,  *)
(*               _check_single_stream_status, _send_notification.          *)
(*   SpecMgr     NotificationManager: active_checks and _check_stream_loop.*)
(*   SpecBackoff the backoff expression of check_stream_loop as a function *)
(*               of the consecutive error count.                           *)
(*   SpecStart   the start and stop operations of both services.           *)
(*   SpecRepo    SQLiteDatabase: save, delete, update_status.              *)
(*   SpecInterval ConfigurationService.get_check_interval as a function of *)
(*               the configuration and the hour of the day.                *)
(*   SpecStore   one check_stream_loop task whose store write may raise.   *)
(*   SpecCancel  the check_stream_loop tasks with cancellation at any      *)
(*               suspension point.                                         *)
(*   SpecAdd     _check_streams_loop beside add_configuration.             *)
(*   SpecAddCmd  concurrent add-configuration commands.                    *)
(*   SpecPlatform one check_stream_loop task over the platform classes'    *)
(*               is_stream_live.                                           *)
(*   SpecJson    ConfigurationService: the configuration list of the JSON  *)
(*               file.                                                     *)
(*   SpecHealth  the check tasks beside monitor_health.                    *)
(*                                                                         *)
(* Logging calls are taken to return without effect on the state.          *)
(* A cancelled task ends at the suspension point it is waiting at          *)
(* (asyncio.CancelledError is not an Exception, so no handler of the       *)
(* loops catches it).                                                      *)
(***************************************************************************)
EXTENDS Integers, Sequences, FiniteSets, TLC

\* ---------------------------------------------------------------- bounds
MaxTasks == 2
MaxSvcTasks == 1
MaxProbes == 1
MaxTickProbes == 3
MaxStreakProbes == 4
MaxPending == 1
MaxN == 10
MaxMgrTicks == 1
MaxMgrLoops == 3
MaxPollTicks == 3
MaxCmds == 2

\* ------------------------------------------------------ program constants
CheckSleep == 30
BackoffBase == 30
BackoffCap == 300
\* ConfigurationService.DEFAULT_CHECK_INTERVALS and DEFAULT_NIGHT_MODE
DefaultLive == 1800
DefaultOffline == 120
DefaultNight == 1800
DefaultStartHour == 20
DefaultEndHour == 8

\* ---------------------------------------------------------------- entries
E1 == [guild_id |-> 1, platform |-> "twitch", username |-> "x"]
E2 == [guild_id |-> 2, platform |-> "twitch", username |-> "x"]
Entries == {E1, E2}

Platforms == {"twitch", "tiktok"}

GuildStr(g) == IF g = 1 THEN "1" ELSE "2"

\* add_config_command builds profile_url from platform and username
ProfileUrl(e) ==
  IF e.platform = "twitch" THEN <<"https://twitch.tv/", e.username>>
  ELSE <<"https://tiktok.com/@", e.username>>

\* f"{config['guild_id']}:{config['profile_url']}"
TaskKeyUrlOnly(e) == <<"", ":">> \o ProfileUrl(e)
TaskKey(e) == <<GuildStr(e.guild_id), ":">> \o ProfileUrl(e)

\* f"{guild_id}_{platform}_{username}"
ConfigKey(e) == <<GuildStr(e.guild_id), "_", e.platform, "_", e.username>>

\* f"{config['guild_id']}:{config['platform']}:{config['username']}"
StreamKey(e) == <<GuildStr(e.guild_id), ":", e.platform, ":", e.username>>

\* min(30 * (2 ** consecutive_errors), 300)
Min(a, b) == IF a <= b THEN a ELSE b
Uncapped(d) == d
Capped(d) == Min(d, BackoffCap)
BackoffFromBase(n) == Capped(BackoffBase * (2 ^ (n - 1)))
Backoff(n) == Capped(BackoffBase * (2 ^ n))

\* ------------------------------------------------------------- variables
VARIABLES
  stream_configs,   \* store: rows of stream_configs, key -> [is_active, error_message, is_live]
  stream_status,    \* store: rows of stream_status, key -> is_live
  check_tasks,      \* NotificationService.check_tasks, in insertion order
  tasks,            \* asyncio tasks running check_stream_loop
  objs,             \* StreamCheckStatus objects
  running,          \* NotificationService._running
  service_status,   \* NotificationService.service_status
  main_task,        \* NotificationService.main_task
  pending,          \* handlers suspended between two of their steps
  probes,           \* number of probe calls made so far
  budget,           \* numbers of probe calls and of tasks the run is cut off at
  sent,             \* notifications delivered per entry
  ghost,            \* what the last operation did (who acted, how it returned)
  active_checks,    \* NotificationManager.active_checks
  is_running,       \* NotificationManager._is_running
  mloops,           \* NotificationManager._check_stream_loop tasks
  mgr,              \* NotificationManager start_all / stop_all in progress
  poll,             \* the _check_streams_loop task and the check in progress
  bo                \* inputs and results of the pure functions under check

storeVars == <<stream_configs, stream_status>>
svcVars == <<check_tasks, tasks, objs, running, service_status, main_task, pending>>
mgrVars == <<active_checks, is_running, mloops, mgr>>
vars == <<stream_configs, stream_status, check_tasks, tasks, objs, running,
          service_status, main_task, pending, probes, budget, sent, ghost,
          active_checks, is_running, mloops, mgr, poll, bo>>

\* ------------------------------------------------- check_tasks (a dict)
Has(ct, k) == \E i \in 1..Len(ct) : ct[i].key = k
IndexOf(ct, k) == CHOOSE i \in 1..Len(ct) : ct[i].key = k
Get(ct, k) == ct[IndexOf(ct, k)].val
Put(ct, k, v) ==
  IF Has(ct, k) THEN [ct EXCEPT ![IndexOf(ct, k)].val = v]
  ELSE Append(ct, [key |-> k, val |-> v])
Del(ct, k) == SelectSeq(ct, LAMBDA r : r.key # k)

StatusVal(o) == [kind |-> "status", ref |-> o]
DictVal(t) == [kind |-> "dict", ref |-> t]

\* ------------------------------------------------------------ the store
ConfigRow == [is_active : BOOLEAN, error_message : {"", "timeout", "user not found"},
              is_live : BOOLEAN]
NewRow == [is_active |-> TRUE, error_message |-> "", is_live |-> FALSE]

\* DatabaseService.get_stream_status: the row, or None
GetStreamStatus(ss, e) == IF e \in DOMAIN ss THEN [found |-> TRUE, is_live |-> ss[e]]
                          ELSE [found |-> FALSE, is_live |-> FALSE]

\* DatabaseService.save_stream_state: INSERT ... ON CONFLICT DO UPDATE
SaveStreamState(ss, e, live) == [k \in DOMAIN ss \cup {e} |-> IF k = e THEN live ELSE ss[k]]

\* DatabaseService.update_configuration_status: UPDATE ... WHERE key
UpdateConfigurationStatus(sc, e, active, msg) ==
  [k \in DOMAIN sc |-> IF k = e THEN [sc[k] EXCEPT !.is_active = active, !.error_message = msg]
                       ELSE sc[k]]

\* ------------------------------------------------------------ task table
TaskIds == 1..MaxTasks

\* pc, entry, obj, cur and dur are the task's position and locals; the other
\* fields record what the task has observed and done so far:
\*   res        what the last probe call produced
\*   loaded     what check_stream_loop read from the store before its loop
\*   obs        the last liveness a successful probe of this task reported
\*   prior      obs as it was before the probe of the current tick
\*   tickFired  handle_stream_state_change was invoked in the current tick
\*   runFired   invocations since the last probe that reported offline
\*   fired      invocations in all
\*   sawOffline a probe of this task has reported offline
\*   streak     the backoff sleeps of the latest run of consecutive errors
NoTask == [pc |-> "none", entry |-> E1, obj |-> 0, cur |-> "none", dur |-> 0, res |-> "none",
           loaded |-> "unset", obs |-> "unset", prior |-> "unset", fired |-> 0,
           runFired |-> 0, tickFired |-> FALSE, sawOffline |-> FALSE,
           streak |-> <<>>]

NewStatus == [is_live |-> FALSE, consecutive_errors |-> 0, error_count |-> 0,
              success_count |-> 0, status |-> "Stopped", last_error |-> "none"]

FreeTask == CHOOSE t \in 1..MaxTasks : tasks[t].pc = "none" /\ \A u \in 1..(t-1) : tasks[u].pc # "none"
CanSpawn == Cardinality({t \in 1..MaxTasks : tasks[t].pc # "none"}) < budget.tasks
Spawned(e) == [NoTask EXCEPT !.pc = "created", !.entry = e]

NextObj == Len(objs) + 1

Done(t) == tasks[t].pc \in {"done", "crashed", "cancelled"}
Alive(t) == tasks[t].pc \notin {"none", "done", "crashed", "cancelled"}
Cancel(tk, t) == IF tk[t].pc \in {"none", "done", "crashed", "cancelled"} THEN tk
                 ELSE [tk EXCEPT ![t].pc = "cancelled"]

\* an add_configuration call: where it is inside _check_single_stream_status
\* and the locals of that check
NoAdd == [pc |-> "none", entry |-> E1, is_live |-> FALSE, err |-> "none", active |-> TRUE]

\* the add-configuration commands under way: where each is, and its key
NoCmds == [c \in 1..MaxCmds |-> [pc |-> "none", entry |-> E1]]

\* handlers suspended at an await of their own
NumPending == Cardinality(pending.toggle) + Cardinality(pending.update)

Name(e) == IF e = E1 THEN "E1" ELSE "E2"
Quiet == [op |-> "none", arg |-> "none", result |-> "none"]
Did(op, e, res) == [op |-> op, arg |-> Name(e), result |-> res]

LiveStr(b) == IF b THEN "live" ELSE "offline"

\* a start operation: whether it found the service running, and the start
\* operation that did so in the step before, if any
Started(op, noop) == [op |-> op,
                      arg |-> IF ghost.result = "no-op"
                                 /\ ghost.op \in {"start_checking", "start_all_monitoring"}
                              THEN ghost.op ELSE "none",
                      result |-> IF noop THEN "no-op" ELSE "started"]

\* `if self._running: return` and `if self._is_running: return`
AlreadyRunningNever(flag) == FALSE
AlreadyRunning(flag) == flag

restVars == <<budget, active_checks, is_running, mloops, mgr, bo>>
otherVars == <<restVars, poll>>

\* the _check_streams_loop task: its position, the configs still to visit in
\* this round (the head is the one being checked), the locals of
\* _check_single_stream_status, and what the check that just ended did
NoReport == [valid |-> FALSE, arg |-> "none", before |-> "none", cur |-> FALSE,
             chan |-> FALSE, nsent |-> 0]
NoPoll == [pc |-> "none", todo |-> <<>>, how |-> "none", is_live |-> FALSE, err |-> "none",
           active |-> TRUE, before |-> "none", ticks |-> 0, rep |-> NoReport]

\* what a probe call can produce: a value (bool, or dict without error), a
\* dict carrying an error, or an exception
ResName(r) ==
  IF r.error = "none" THEN LiveStr(r.is_live)
  ELSE IF r.how = "return" THEN (IF r.error = "timeout" THEN "error" ELSE "error_not_found")
  ELSE (IF r.error = "timeout" THEN "raise" ELSE "raise_not_found")

ProbeResults ==
  { [how |-> "return", is_live |-> TRUE,  error |-> "none"],
    [how |-> "return", is_live |-> FALSE, error |-> "none"],
    [how |-> "return", is_live |-> FALSE, error |-> "timeout"],
    [how |-> "return", is_live |-> FALSE, error |-> "user not found"],
    [how |-> "raise",  is_live |-> FALSE, error |-> "timeout"],
    [how |-> "raise",  is_live |-> FALSE, error |-> "user not found"] }

\* 'user not found' in str(error).lower()
UserNotFoundAlways(err) == TRUE
UserNotFoundNever(err) == FALSE
UserNotFound(err) == err = "user not found"

\* previous_state.get('is_live', False)
PrevIsLiveDefault(prev) == FALSE
PrevIsLive(prev) == prev.is_live

\* current_live_state and not status.is_live
IsEdgeAnyLive(cur, was) == cur
IsEdge(cur, was) == cur /\ ~was

\* ------------------------------------------- check_stream_loop, step by step
\* lines 113-129: look the status object up, create it when the key is
\* missing; a dict registered under the key has no attribute 'status'
Start(t) ==
  /\ tasks[t].pc = "created"
  /\ LET e == tasks[t].entry
         k == TaskKey(e)
     IN IF Has(check_tasks, k) /\ Get(check_tasks, k).kind = "dict"
        THEN /\ tasks' = [tasks EXCEPT ![t].pc = "crashed"]
             /\ UNCHANGED <<check_tasks, objs>>
        ELSE LET o == IF Has(check_tasks, k) THEN Get(check_tasks, k).ref ELSE NextObj
                 os == IF Has(check_tasks, k) THEN objs ELSE Append(objs, NewStatus)
             IN /\ objs' = [os EXCEPT ![o].status = "Running"]
                /\ check_tasks' = Put(check_tasks, k, StatusVal(o))
                /\ tasks' = [tasks EXCEPT ![t].obj = o,
                                          ![t].pc = IF e.platform \in Platforms THEN "init" ELSE "done"]
  /\ ghost' = Quiet
  /\ UNCHANGED <<stream_configs, stream_status, running, service_status, main_task,
                 pending, probes, sent, otherVars>>

\* lines 131-137: previous_state.get('is_live', False), then the loop test
LoadPrev(t) ==
  /\ tasks[t].pc = "init"
  /\ LET e == tasks[t].entry
         o == tasks[t].obj
         prev == GetStreamStatus(stream_status, e)
     IN IF ~prev.found
        THEN /\ tasks' = [tasks EXCEPT ![t].pc = "crashed"]
             /\ objs' = objs
        ELSE /\ objs' = [objs EXCEPT ![o].is_live = PrevIsLive(prev)]
             /\ tasks' = [tasks EXCEPT ![t].pc = IF running THEN "probe" ELSE "done",
                                       ![t].loaded = LiveStr(prev.is_live),
                                       ![t].obs = LiveStr(prev.is_live)]
  /\ ghost' = Quiet
  /\ UNCHANGED <<stream_configs, stream_status, check_tasks, running, service_status,
                 main_task, pending, probes, sent, otherVars>>

\* lines 138-166 and 194-197: the probe returns or raises
Probe(t, r) ==
  /\ tasks[t].pc = "probe"
  /\ probes < budget.probes
  /\ probes' = probes + 1
  /\ LET e == tasks[t].entry
         o == tasks[t].obj
     IN IF r.how = "return" /\ r.error = "none"
        THEN /\ objs' = [objs EXCEPT ![o].success_count = @ + 1,
                                     ![o].consecutive_errors = 0]
             /\ tasks' = [tasks EXCEPT ![t].pc = "log", ![t].res = ResName(r),
                                       ![t].cur = LiveStr(r.is_live),
                                       ![t].prior = tasks[t].obs,
                                       ![t].obs = LiveStr(r.is_live),
                                       ![t].tickFired = FALSE,
                                       ![t].runFired = IF r.is_live THEN @ ELSE 0,
                                       ![t].sawOffline = @ \/ ~r.is_live]
             /\ UNCHANGED stream_configs
        ELSE IF r.how = "return" /\ UserNotFound(r.error)
        THEN /\ stream_configs' = UpdateConfigurationStatus(stream_configs, e, FALSE, "user not found")
             /\ tasks' = [tasks EXCEPT ![t].pc = "done", ![t].res = ResName(r),
                                       ![t].cur = "notfound",
                                       ![t].prior = tasks[t].obs,
                                       ![t].tickFired = FALSE]
             /\ UNCHANGED objs
        ELSE /\ objs' = [objs EXCEPT ![o].error_count = @ + 1,
                                     ![o].consecutive_errors = @ + 1,
                                     ![o].last_error = r.error]
             /\ tasks' = [tasks EXCEPT ![t].pc = "herr", ![t].res = ResName(r),
                                       ![t].cur = IF UserNotFound(r.error) THEN "raise_notfound" ELSE "error",
                                       ![t].prior = tasks[t].obs,
                                       ![t].tickFired = FALSE,
                                       ![t].streak = IF objs[o].consecutive_errors = 0 THEN <<>> ELSE @]
             /\ UNCHANGED stream_configs
  /\ ghost' = Quiet
  /\ UNCHANGED <<stream_status, check_tasks, running, service_status, main_task,
                 pending, sent, otherVars>>

\* lines 169-184: after log_debug, the transition test
AfterLog(t) ==
  /\ tasks[t].pc = "log"
  /\ LET o == tasks[t].obj
         cur == tasks[t].cur = "live"
     IN IF IsEdge(cur, objs[o].is_live)
        THEN /\ tasks' = [tasks EXCEPT ![t].pc = "send", ![t].tickFired = TRUE,
                                       ![t].fired = @ + 1, ![t].runFired = @ + 1]
             /\ UNCHANGED objs
        ELSE /\ objs' = [objs EXCEPT ![o].is_live = cur]
             /\ tasks' = [tasks EXCEPT ![t].pc = "save"]
  /\ ghost' = Quiet
  /\ UNCHANGED <<stream_configs, stream_status, check_tasks, running, service_status,
                 main_task, pending, probes, sent, otherVars>>

\* handle_stream_state_change, lines 274-330: guild, channel or role missing
\* returns early, channel.send may raise, otherwise the message is delivered
Deliveries == {"sent", "missing", "raises"}

\* line 184 runs after handle_stream_state_change whatever became of the
\* delivery: the dispatcher catches every exception and returns
LiveAfterSendIfDelivered(d, cur, old) == IF d = "sent" THEN cur ELSE old
LiveAfterSend(d, cur, old) == cur

Send(t, d) ==
  /\ tasks[t].pc = "send"
  /\ LET e == tasks[t].entry
         o == tasks[t].obj
     IN IF d = "sent"
        THEN /\ sent' = [sent EXCEPT ![e] = @ + 1]
             /\ tasks' = [tasks EXCEPT ![t].pc = "dsave"]
             /\ UNCHANGED objs
        ELSE /\ objs' = [objs EXCEPT ![o].is_live = LiveAfterSend(d, tasks[t].cur = "live", @)]
             /\ tasks' = [tasks EXCEPT ![t].pc = "save"]
             /\ UNCHANGED sent
  /\ ghost' = Quiet
  /\ UNCHANGED <<stream_configs, stream_status, check_tasks, running, service_status,
                 main_task, pending, probes, otherVars>>

\* handle_stream_state_change, lines 332-337, then line 184
DSave(t) ==
  /\ tasks[t].pc = "dsave"
  /\ LET e == tasks[t].entry
         o == tasks[t].obj
     IN /\ stream_status' = SaveStreamState(stream_status, e, tasks[t].cur = "live")
        /\ objs' = [objs EXCEPT ![o].is_live = (tasks[t].cur = "live")]
        /\ tasks' = [tasks EXCEPT ![t].pc = "save"]
  /\ ghost' = Quiet
  /\ UNCHANGED <<stream_configs, check_tasks, running, service_status,
                 main_task, pending, probes, sent, otherVars>>

\* lines 186-192: write the observed state through, then sleep 30 s
Save(t) ==
  /\ tasks[t].pc = "save"
  /\ stream_status' = SaveStreamState(stream_status, tasks[t].entry, tasks[t].cur = "live")
  /\ tasks' = [tasks EXCEPT ![t].pc = "sleep", ![t].dur = CheckSleep]
  /\ ghost' = Quiet
  /\ UNCHANGED <<stream_configs, check_tasks, objs, running, service_status,
                 main_task, pending, probes, sent, otherVars>>

\* handle_check_error (lines 230-270), then the backoff sleep of line 202
HandleErr(t) ==
  /\ tasks[t].pc = "herr"
  /\ LET e == tasks[t].entry
         o == tasks[t].obj
         k == TaskKey(e)
         nf == tasks[t].cur = "raise_notfound"
         d == Backoff(objs[o].consecutive_errors)
         isDict == nf /\ Has(check_tasks, k) /\ Get(check_tasks, k).kind = "dict"
         tk1 == IF isDict THEN Cancel(tasks, Get(check_tasks, k).ref) ELSE tasks
     IN /\ stream_configs' = IF nf THEN UpdateConfigurationStatus(stream_configs, e, FALSE, "user not found")
                              ELSE stream_configs
        /\ check_tasks' = IF isDict THEN Del(check_tasks, k) ELSE check_tasks
        /\ tasks' = IF tk1[t].pc = "cancelled" THEN tk1
                    ELSE [tk1 EXCEPT ![t].pc = "backoff", ![t].dur = d,
                                     ![t].streak = Append(@, d)]
  /\ ghost' = Quiet
  /\ UNCHANGED <<stream_status, objs, running, service_status, main_task,
                 pending, probes, sent, otherVars>>

\* the sleep ends: the test of `while self._running`
Wake(t) ==
  /\ tasks[t].pc \in {"sleep", "backoff"}
  /\ tasks' = [tasks EXCEPT ![t].pc = IF running THEN "probe" ELSE "done"]
  /\ ghost' = Quiet
  /\ UNCHANGED <<stream_configs, stream_status, check_tasks, objs, running, service_status,
                 main_task, pending, probes, sent, otherVars>>

TaskStep(t) ==
  \/ Start(t)
  \/ LoadPrev(t)
  \/ \E r \in ProbeResults : Probe(t, r)
  \/ AfterLog(t)
  \/ \E d \in Deliveries : Send(t, d)
  \/ DSave(t)
  \/ Save(t)
  \/ HandleErr(t)
  \/ Wake(t)

\* --------------------------------------------- NotificationService, operations
Spawn(tk, e) == [tk EXCEPT ![FreeTask] = Spawned(e)]

\* add_new_configuration, lines 414-452
AddNewConfiguration(e) ==
  /\ ~Has(check_tasks, TaskKey(e)) => CanSpawn
  /\ IF ~Has(check_tasks, TaskKey(e))
     THEN /\ tasks' = Spawn(tasks, e)
          /\ objs' = Append(objs, [NewStatus EXCEPT !.status = "Running"])
          /\ check_tasks' = Put(check_tasks, TaskKey(e), StatusVal(NextObj))
     ELSE UNCHANGED <<tasks, objs, check_tasks>>
  /\ ghost' = Quiet
  /\ UNCHANGED <<stream_configs, stream_status, running, service_status, main_task,
                 pending, probes, sent, otherVars>>

\* handle_configuration_toggle(enable=True), lines 503-505: the key is not
\* registered, the handler awaits get_configuration
ToggleEnableBegin(e) ==
  /\ ~Has(check_tasks, TaskKey(e))
  /\ e \notin pending.toggle
  /\ NumPending < MaxPending
  /\ pending' = [pending EXCEPT !.toggle = @ \cup {e}]
  /\ ghost' = Quiet
  /\ UNCHANGED <<stream_configs, stream_status, check_tasks, tasks, objs, running,
                 service_status, main_task, probes, sent, otherVars>>

\* handle_configuration_toggle(enable=True), lines 506-513
ToggleEnableEnd(e) ==
  /\ e \in pending.toggle
  /\ e \in DOMAIN stream_configs => CanSpawn
  /\ pending' = [pending EXCEPT !.toggle = @ \ {e}]
  /\ IF e \in DOMAIN stream_configs
     THEN /\ tasks' = Spawn(tasks, e)
          /\ check_tasks' = Put(check_tasks, TaskKey(e), DictVal(FreeTask))
     ELSE UNCHANGED <<tasks, check_tasks>>
  /\ ghost' = Quiet
  /\ UNCHANGED <<stream_configs, stream_status, objs, running, service_status,
                 main_task, probes, sent, otherVars>>

\* handle_configuration_toggle(enable=False), lines 514-517: subscripting a
\* StreamCheckStatus raises TypeError before anything is changed
ToggleDisable(e) ==
  /\ Has(check_tasks, TaskKey(e))
  /\ LET v == Get(check_tasks, TaskKey(e))
     IN IF v.kind = "dict"
        THEN /\ tasks' = Cancel(tasks, v.ref)
             /\ check_tasks' = Del(check_tasks, TaskKey(e))
             /\ ghost' = Quiet
        ELSE /\ UNCHANGED <<tasks, check_tasks>>
             /\ ghost' = Quiet
  /\ UNCHANGED <<stream_configs, stream_status, objs, running, service_status,
                 main_task, pending, probes, sent, otherVars>>

\* update_configuration, lines 522-531: cancel the registered task, then
\* await save_configuration
UpdateBegin(e) ==
  /\ e \notin pending.update
  /\ NumPending < MaxPending
  /\ IF Has(check_tasks, TaskKey(e)) /\ Get(check_tasks, TaskKey(e)).kind = "status"
     THEN /\ ghost' = Quiet
          /\ UNCHANGED <<tasks, pending>>
     ELSE /\ tasks' = IF Has(check_tasks, TaskKey(e))
                      THEN Cancel(tasks, Get(check_tasks, TaskKey(e)).ref) ELSE tasks
          /\ pending' = [pending EXCEPT !.update = @ \cup {e}]
          /\ ghost' = Quiet
  /\ UNCHANGED <<stream_configs, stream_status, check_tasks, objs, running,
                 service_status, main_task, probes, sent, otherVars>>

\* update_configuration, lines 531-540
UpdateEnd(e) ==
  /\ e \in pending.update
  /\ CanSpawn
  /\ pending' = [pending EXCEPT !.update = @ \ {e}]
  /\ stream_configs' = [k \in DOMAIN stream_configs \cup {e} |->
                          IF k \in DOMAIN stream_configs THEN stream_configs[k] ELSE NewRow]
  /\ tasks' = Spawn(tasks, e)
  /\ check_tasks' = Put(check_tasks, TaskKey(e), DictVal(FreeTask))
  /\ ghost' = Quiet
  /\ UNCHANGED <<stream_status, objs, running, service_status, main_task,
                 probes, sent, otherVars>>

\* task_key.split(':')[1] at line 89: what stands between the first and the
\* second colon of f"{guild_id}:{profile_url}", the scheme of the URL
KeyField1(e) == <<"https">>

\* lines 87-91: the stored configuration of the guild whose profile_url is
\* that field of the key
ConfigsForKey(sc, e) == {c \in DOMAIN sc : c.guild_id = e.guild_id /\ ProfileUrl(c) = KeyField1(e)}

\* a watchdog that reads the age of any value and cancels the entry's task
MonitorHealthAnyValue(e, stale) ==
  /\ running
  /\ Has(check_tasks, TaskKey(e))
  /\ tasks' = IF stale
              THEN [t \in TaskIds |-> IF tasks[t].entry = e THEN Cancel(tasks, t)[t] ELSE tasks[t]]
              ELSE tasks
  /\ ghost' = Did("monitor_health", e, IF stale THEN "stale, no config" ELSE "fresh")
  /\ UNCHANGED <<stream_configs, stream_status, check_tasks, objs, running,
                 service_status, main_task, pending, probes, sent, otherVars>>

\* monitor_health, lines 72-109, at one item of check_tasks; stale says
\* whether the task's last check is more than 300 s ago.
\*   line 77      task_info['last_check'] raises TypeError on a
\*                StreamCheckStatus: the handler at 107 logs, the pass is over
\*   lines 83-84  a stale dict value: its task is cancelled unless done
\*   lines 87-99  a new task is registered if the lookup finds a configuration
MonitorHealth(e, stale) ==
  /\ running
  /\ Has(check_tasks, TaskKey(e))
  /\ LET v == Get(check_tasks, TaskKey(e))
     IN IF v.kind = "status"
        THEN /\ ghost' = Did("monitor_health", e, IF stale THEN "stale, raised" ELSE "raised")
             /\ UNCHANGED <<tasks, check_tasks>>
        ELSE IF ~stale
        THEN /\ ghost' = Did("monitor_health", e, "fresh")
             /\ UNCHANGED <<tasks, check_tasks>>
        ELSE IF ConfigsForKey(stream_configs, e) = {}
        THEN /\ tasks' = Cancel(tasks, v.ref)
             /\ ghost' = Did("monitor_health", e, "stale, no config")
             /\ UNCHANGED check_tasks
        ELSE /\ CanSpawn
             /\ tasks' = Spawn(Cancel(tasks, v.ref), e)
             /\ check_tasks' = Put(check_tasks, TaskKey(e), DictVal(FreeTask))
             /\ ghost' = Did("monitor_health", e, "stale, restarted")
  /\ UNCHANGED <<stream_configs, stream_status, objs, running,
                 service_status, main_task, pending, probes, sent, otherVars>>

\* get_service_status, lines 346-367: status.status raises AttributeError
\* on a dict value; otherwise the snapshot is built and returned
GetServiceStatus ==
  /\ ghost' = [op |-> "get_service_status", arg |-> "none",
               result |-> IF \E i \in 1..Len(check_tasks) : check_tasks[i].val.kind = "dict"
                          THEN "raised" ELSE "returned"]
  /\ UNCHANGED <<stream_configs, stream_status, svcVars, probes, sent, otherVars>>

\* remove_configuration, lines 476-497: looks up f"{guild_id}_{platform}_{username}";
\* a value found there has no done()
RemoveConfiguration(e) ==
  /\ ghost' = Did("remove_configuration", e,
                  IF Has(check_tasks, ConfigKey(e)) THEN "raised" ELSE "returned")
  /\ UNCHANGED <<stream_configs, stream_status, check_tasks, tasks, objs, running,
                 service_status, main_task, pending, probes, sent, otherVars>>

\* start_checking, lines 60-68
StartChecking ==
  /\ IF AlreadyRunning(running) THEN UNCHANGED <<running, main_task, poll>>
     ELSE /\ running' = TRUE
          /\ main_task' = "alive"
          /\ poll' = [NoPoll EXCEPT !.pc = "created", !.ticks = poll.ticks]
  /\ ghost' = Started("start_checking", AlreadyRunning(running))
  /\ UNCHANGED <<stream_configs, stream_status, check_tasks, tasks, objs,
                 service_status, pending, probes, sent, restVars>>

\* stop_checking, lines 381-391: the walk over check_tasks.items().  A dict
\* whose task is not done has it cancelled and awaited; a dict whose task is
\* done fails on `.status =` and the handler logs it; a StreamCheckStatus
\* fails on ['task'] and again inside the handler, which ends the walk.
RECURSIVE StopWalk(_, _, _)
StopWalk(ct, i, tk) ==
  IF i > Len(ct) THEN [tasks |-> tk, raised |-> FALSE]
  ELSE IF ct[i].val.kind = "status" THEN [tasks |-> tk, raised |-> TRUE]
  ELSE StopWalk(ct, i + 1, Cancel(tk, ct[i].val.ref))

\* stop_checking, lines 369-394
StopChecking ==
  /\ running' = FALSE
  /\ service_status' = "Stopped"
  /\ main_task' = IF main_task = "alive" THEN "cancelled" ELSE main_task
  /\ poll' = IF main_task = "alive" THEN [NoPoll EXCEPT !.pc = "cancelled", !.ticks = poll.ticks]
             ELSE poll
  /\ LET w == StopWalk(check_tasks, 1, tasks)
     IN /\ tasks' = w.tasks
        /\ check_tasks' = IF w.raised THEN check_tasks ELSE <<>>
        /\ ghost' = [op |-> "stop_checking", arg |-> "none",
                     result |-> IF w.raised THEN "raised" ELSE "returned"]
  /\ UNCHANGED <<stream_configs, stream_status, objs, pending, probes, sent, restVars>>

\* ------------------------------------------------------------------ Spec
NoStore == [k \in {} |-> FALSE]
StatusStores == UNION { [D -> BOOLEAN] : D \in SUBSET Entries }

InitOther ==
  /\ active_checks = <<>>
  /\ is_running = FALSE
  /\ mloops = <<>>
  /\ mgr = [start |-> "idle", start_todo |-> <<>>, skipped |-> {}, stop |-> "idle",
            stop_todo |-> <<>>, ticks |-> 0]
  /\ poll = NoPoll
  /\ bo = [n |-> 0, m |-> 0, sn |-> 0, sm |-> 0, done |-> FALSE]

InitService ==
  /\ check_tasks = <<>>
  /\ tasks = [t \in 1..MaxTasks |-> NoTask]
  /\ objs = <<>>
  /\ running = FALSE
  /\ service_status = "Stopped"
  /\ main_task = "none"
  /\ pending = [toggle |-> {}, update |-> {}, add |-> NoAdd, cmds |-> NoCmds]
  /\ probes = 0
  /\ sent = [e \in Entries |-> 0]
  /\ ghost = Quiet

Init ==
  /\ stream_configs = [e \in Entries |-> NewRow]
  /\ stream_status \in {s \in StatusStores : E2 \in DOMAIN s /\ ~s[E2]}
  /\ budget = [probes |-> MaxProbes, tasks |-> MaxSvcTasks]
  /\ InitService
  /\ InitOther

Next ==
  \/ \E t \in TaskIds : TaskStep(t)
  \/ \E e \in Entries : AddNewConfiguration(e)
  \/ \E e \in Entries : ToggleEnableBegin(e)
  \/ \E e \in Entries : ToggleEnableEnd(e)
  \/ \E e \in Entries : ToggleDisable(e)
  \/ \E e \in Entries : UpdateBegin(e)
  \/ \E e \in Entries : UpdateEnd(e)
  \/ \E e \in Entries : RemoveConfiguration(e)
  \/ \E e \in Entries, stale \in BOOLEAN : MonitorHealth(e, stale)
  \/ GetServiceStatus
  \/ StartChecking
  \/ StopChecking

Spec == Init /\ [][Next]_vars

\* the check loops alone: entries are added, the service is started, and
\* nothing but the tasks runs afterwards
InitTicks ==
  /\ stream_configs = [e \in Entries |-> NewRow]
  /\ stream_status \in StatusStores
  /\ budget = [probes |-> MaxTickProbes, tasks |-> MaxTasks]
  /\ InitService
  /\ InitOther

\* start_checking is called once here; repeated calls are in SpecStart
NextTicks ==
  \/ \E t \in TaskIds : TaskStep(t)
  \/ \E e \in Entries : AddNewConfiguration(e)
  \/ (~running /\ StartChecking)

SpecTicks == InitTicks /\ [][NextTicks]_vars

\* one check loop alone, over a longer run of ticks
InitStreak ==
  /\ stream_configs = [e \in Entries |-> NewRow]
  /\ stream_status \in StatusStores
  /\ budget = [probes |-> MaxStreakProbes, tasks |-> 1]
  /\ InitService
  /\ InitOther

SpecStreak == InitStreak /\ [][NextTicks]_vars

\* ------------------------------------------------------ claims on the loops
StatusOf(t) == objs[tasks[t].obj]

\* C1: in check_stream_loop the dispatcher is invoked in a tick exactly when
\* the probe reported live and the last successful observation before it
\* (or the state loaded at start) was offline, and so at most once between
\* two probes that report offline, error ticks in between included.
C1_DispatchOnEdgeOnly ==
  \A t \in TaskIds :
    /\ tasks[t].runFired <= 1
    /\ tasks[t].pc # "log" =>
         (tasks[t].tickFired <=> (tasks[t].cur = "live" /\ tasks[t].prior = "offline"))

\* a live tick, an error tick and another live tick: one invocation in all
C1_Witness ==
  \E t \in TaskIds :
    /\ tasks[t].pc = "sleep" /\ tasks[t].cur = "live" /\ tasks[t].prior = "live"
    /\ tasks[t].loaded = "offline" /\ ~tasks[t].sawOffline
    /\ tasks[t].fired = 1 /\ ~tasks[t].tickFired
    /\ StatusOf(t).error_count = 1 /\ StatusOf(t).success_count = 2

\* C3: a task that found is_live = true persisted when it started invokes
\* the dispatcher never (and so sends nothing) for as long as every probe of it
\* that succeeds reports live.
C3_NoRefireAfterRestart ==
  \A t \in TaskIds :
    (tasks[t].loaded = "live" /\ ~tasks[t].sawOffline) => tasks[t].fired = 0

\* a task started over a persisted live state has completed a live tick
C3_Witness ==
  \E t \in TaskIds :
    /\ tasks[t].loaded = "live" /\ tasks[t].cur = "live" /\ tasks[t].pc = "sleep"
    /\ StatusOf(t).success_count >= 1 /\ tasks[t].fired = 0 /\ sent[tasks[t].entry] = 0

\* C4: the step in which a probe returns a result whose error is "user not
\* found" writes is_active = false and the message to the entry's row,
\* changes no StreamCheckStatus counter and ends the task; the task never
\* takes another step.
C4_NotFoundDeactivates ==
  [][\A t \in TaskIds :
       /\ (tasks[t].pc = "probe" /\ tasks'[t].pc # "probe" /\ tasks'[t].res = "error_not_found") =>
            /\ tasks'[t].pc = "done"
            /\ objs' = objs
            /\ ~stream_configs'[tasks[t].entry].is_active
            /\ stream_configs'[tasks[t].entry].error_message = "user not found"
       /\ (tasks[t].res = "error_not_found") => tasks'[t] = tasks[t]]_vars

\* a task was ended by a "user not found" result after a successful tick
C4_Witness ==
  \E t \in TaskIds :
    /\ tasks[t].res = "error_not_found" /\ tasks[t].pc = "done"
    /\ StatusOf(t).success_count = 1 /\ StatusOf(t).error_count = 0
    /\ ~stream_configs[tasks[t].entry].is_active

\* C5 as stated: after three failed probes in a row and a successful fourth
\* the sleeps in between were 30, 60 and 120 s and consecutive_errors is 0.
C5_Sleeps30_60_120 ==
  \A t \in TaskIds :
    (Len(tasks[t].streak) = 3 /\ tasks[t].cur \in {"live", "offline"}) =>
      (tasks[t].streak = <<30, 60, 120>> /\ StatusOf(t).consecutive_errors = 0)

\* C5 amended: the sleeps in between are 60, 120 and 240 s, and the
\* successful fourth attempt resets consecutive_errors to 0.
C5_Sleeps60_120_240 ==
  \A t \in TaskIds :
    (Len(tasks[t].streak) = 3 /\ tasks[t].cur \in {"live", "offline"}) =>
      (tasks[t].streak = <<60, 120, 240>> /\ StatusOf(t).consecutive_errors = 0)

\* the fourth attempt has succeeded after three failures
C5_Witness ==
  \E t \in TaskIds :
    /\ Len(tasks[t].streak) = 3 /\ tasks[t].pc = "log"
    /\ StatusOf(t).error_count = 3 /\ StatusOf(t).success_count = 1

\* everything that belongs to entry e: its tasks, the StreamCheckStatus
\* objects they and its check_tasks entry refer to, and its rows
RefOf(k) == IF Has(check_tasks, k) THEN Get(check_tasks, k) ELSE StatusVal(0)
StateOf(e) ==
  [ tasks |-> [t \in TaskIds |-> IF tasks[t].pc # "none" /\ tasks[t].entry = e THEN tasks[t] ELSE NoTask],
    status |-> [t \in TaskIds |-> IF tasks[t].pc # "none" /\ tasks[t].entry = e /\ tasks[t].obj # 0
                                  THEN objs[tasks[t].obj] ELSE NewStatus],
    entry |-> RefOf(TaskKey(e)),
    registered |-> IF Has(check_tasks, TaskKey(e)) /\ RefOf(TaskKey(e)).kind = "status"
                   THEN objs[RefOf(TaskKey(e)).ref] ELSE NewStatus,
    is_live |-> GetStreamStatus(stream_status, e),
    row |-> stream_configs[e] ]

\* C7: no step of a check_stream_loop task of one entry changes anything
\* that belongs to the other entry.
C7_TasksIsolated ==
  [][\A t \in TaskIds : \A e \in Entries :
       (tasks[t].pc # "none" /\ tasks[t].entry # e /\ tasks'[t] # tasks[t]) =>
          StateOf(e)' = StateOf(e)]_vars

\* A has failed and is in its backoff while B has completed two ticks
C7_Witness ==
  \E a, b \in TaskIds :
    /\ tasks[a].entry = E1 /\ tasks[b].entry = E2
    /\ tasks[a].pc = "backoff" /\ StatusOf(a).error_count = 1 /\ StatusOf(a).success_count = 0
    /\ tasks[b].pc = "sleep" /\ StatusOf(b).success_count = 2 /\ StatusOf(b).error_count = 0

\* ------------------------------------------------------------ SpecBackoff
InitBackoff ==
  /\ stream_configs = [e \in Entries |-> NewRow]
  /\ stream_status = NoStore
  /\ budget = [probes |-> 0, tasks |-> 0]
  /\ InitService
  /\ active_checks = <<>>
  /\ is_running = FALSE
  /\ mloops = <<>>
  /\ mgr = [start |-> "idle", start_todo |-> <<>>, skipped |-> {}, stop |-> "idle",
            stop_todo |-> <<>>, ticks |-> 0]
  /\ poll = NoPoll
  /\ bo \in [n : 1..MaxN, m : 1..MaxN, sn : {0}, sm : {0}, done : {FALSE}]

\* line 202 evaluated for two error counts
BackoffSleep ==
  /\ ~bo.done
  /\ bo' = [bo EXCEPT !.sn = Backoff(bo.n), !.sm = Backoff(bo.m), !.done = TRUE]
  /\ UNCHANGED <<stream_configs, stream_status, svcVars, probes, budget, sent, ghost,
                 mgrVars, poll>>

NextBackoff == BackoffSleep

SpecBackoff == InitBackoff /\ [][NextBackoff]_vars

\* C6: for n in 1..MaxN the backoff sleep is 60, 120, 240 for n = 1, 2, 3
\* and 300 from n = 4 on; it never exceeds 300 and is non-decreasing in n.
C6_BackoffCapped ==
  bo.done =>
    /\ (bo.n = 1 => bo.sn = 60) /\ (bo.n = 2 => bo.sn = 120) /\ (bo.n = 3 => bo.sn = 240)
    /\ (bo.n >= 4 => bo.sn = 300)
    /\ bo.sn <= 300
    /\ (bo.n <= bo.m => bo.sn <= bo.sm)

\* the cap applied at n = 4 and at the largest count
C6_Witness == bo.done /\ bo.n = 4 /\ bo.m = 10 /\ bo.sn = 300 /\ bo.sm = 300

\* ------------------------------------------------------ NotificationManager
\* SQLiteDatabase.get_all: SELECT * FROM stream_configs WHERE is_active = TRUE
EntryOrder == <<E1, E2>>
IsActiveAlways(sc, e) == TRUE
IsActive(sc, e) == sc[e].is_active
GetAll(sc) == SelectSeq(EntryOrder, LAMBDA e : e \in DOMAIN sc /\ IsActive(sc, e))

\* SQLiteDatabase.update_status: UPDATE stream_configs SET is_live WHERE key
UpdateStatus(sc, e, live) ==
  [k \in DOMAIN sc |-> IF k = e THEN [sc[k] EXCEPT !.is_live = live] ELSE sc[k]]

\* `key not in self.active_checks`, negated
MonitoredWhileTrue(ac, k) == k \in DOMAIN ac /\ ac[k]
Monitored(ac, k) == k \in DOMAIN ac

\* self.active_checks.get(key, False)
ActiveCheck(ac, k) == IF k \in DOMAIN ac THEN ac[k] ELSE FALSE

SetCheck(ac, k, b) == [j \in DOMAIN ac \cup {k} |-> IF j = k THEN b ELSE ac[j]]

NewLoop(e) == [entry |-> e, pc |-> "created", was_live |-> FALSE, cur |-> FALSE]
LoopsOf(ml, e) == {i \in 1..Len(ml) : ml[i].entry = e}
AliveLoops(ml, e) == {i \in LoopsOf(ml, e) : ml[i].pc # "done"}

svcAll == <<svcVars, probes, budget>>

\* start_monitoring, lines 67-73
DoStartMonitoring(e, caller) ==
  IF ~Monitored(active_checks, StreamKey(e))
  THEN /\ Len(mloops) < MaxMgrLoops
       /\ active_checks' = SetCheck(active_checks, StreamKey(e), TRUE)
       /\ mloops' = Append(mloops, NewLoop(e))
       /\ ghost' = Did(caller, e, "spawned")
  ELSE /\ UNCHANGED <<active_checks, mloops>>
       /\ ghost' = Did(caller, e, "no-op")

\* stop_monitoring, lines 75-80
DoStopMonitoring(e) ==
  /\ active_checks' = IF StreamKey(e) \in DOMAIN active_checks
                      THEN SetCheck(active_checks, StreamKey(e), FALSE)
                      ELSE active_checks
  /\ ghost' = Quiet
  /\ UNCHANGED mloops

StartMonitoring(e) ==
  /\ DoStartMonitoring(e, "start_monitoring")
  /\ UNCHANGED <<stream_configs, stream_status, svcAll, sent, is_running, mgr, poll, bo>>

StopMonitoring(e) ==
  /\ DoStopMonitoring(e)
  /\ UNCHANGED <<stream_configs, stream_status, svcAll, sent, is_running, mgr, poll, bo>>

\* start_all_monitoring, lines 33-38: up to the await of get_all
StartAllBegin ==
  /\ mgr.start = "idle" \/ AlreadyRunning(is_running)
  /\ IF AlreadyRunning(is_running) THEN UNCHANGED <<is_running, mgr>>
     ELSE /\ is_running' = TRUE
          /\ mgr' = [mgr EXCEPT !.start = "get"]
  /\ ghost' = Started("start_all_monitoring", AlreadyRunning(is_running))
  /\ UNCHANGED <<stream_configs, stream_status, svcAll, sent, active_checks, mloops, poll, bo>>

\* start_all_monitoring, lines 38-43; skipped remembers the stored entries
\* that were inactive at this read, for as long as the pass lasts
StartAllGot ==
  /\ mgr.start = "get"
  /\ LET configs == GetAll(stream_configs)
     IN mgr' = [mgr EXCEPT !.start = IF configs = <<>> THEN "idle" ELSE "iter",
                           !.start_todo = configs,
                           !.skipped = IF configs = <<>> THEN {}
                                       ELSE {e \in DOMAIN stream_configs :
                                               ~stream_configs[e].is_active}]
  /\ ghost' = Quiet
  /\ UNCHANGED <<stream_configs, stream_status, svcAll, sent, active_checks, is_running,
                 mloops, poll, bo>>

\* start_all_monitoring, lines 43-46: one turn of the for loop
StartAllIter ==
  /\ mgr.start = "iter"
  /\ LET e == Head(mgr.start_todo)
         rest == Tail(mgr.start_todo)
     IN /\ DoStartMonitoring(e, "start_all_monitoring.each")
        /\ mgr' = [mgr EXCEPT !.start = IF rest = <<>> THEN "idle" ELSE "iter",
                              !.start_todo = rest,
                              !.skipped = IF rest = <<>> THEN {} ELSE @]
  /\ UNCHANGED <<stream_configs, stream_status, svcAll, sent, is_running, poll, bo>>

\* stop_all_monitoring, lines 54-59
StopAllBegin ==
  /\ mgr.stop = "idle" \/ ~is_running
  /\ IF ~is_running THEN UNCHANGED <<is_running, mgr>>
     ELSE /\ is_running' = FALSE
          /\ mgr' = [mgr EXCEPT !.stop = "get"]
  /\ ghost' = Quiet
  /\ UNCHANGED <<stream_configs, stream_status, svcAll, sent, active_checks, mloops, poll, bo>>

\* stop_all_monitoring, lines 59-61
StopAllGot ==
  /\ mgr.stop = "get"
  /\ LET configs == GetAll(stream_configs)
     IN mgr' = [mgr EXCEPT !.stop = IF configs = <<>> THEN "idle" ELSE "iter",
                           !.stop_todo = configs]
  /\ ghost' = Quiet
  /\ UNCHANGED <<stream_configs, stream_status, svcAll, sent, active_checks, is_running,
                 mloops, poll, bo>>

\* stop_all_monitoring, lines 62-63: one turn of the for loop
StopAllIter ==
  /\ mgr.stop = "iter"
  /\ LET e == Head(mgr.stop_todo)
         rest == Tail(mgr.stop_todo)
     IN /\ DoStopMonitoring(e)
        /\ mgr' = [mgr EXCEPT !.stop = IF rest = <<>> THEN "idle" ELSE "iter",
                              !.stop_todo = rest]
  /\ UNCHANGED <<stream_configs, stream_status, svcAll, sent, is_running, poll, bo>>

mgrFrame == <<stream_status, svcAll, active_checks, is_running, poll, bo>>

\* _check_stream_loop, line 141: the loop test, at the start and after a sleep
MTest(i) ==
  /\ mloops[i].pc \in {"created", "sleep"}
  /\ mloops' = [mloops EXCEPT ![i].pc =
                  IF ActiveCheck(active_checks, StreamKey(mloops[i].entry)) THEN "get" ELSE "done"]
  /\ ghost' = Quiet
  /\ UNCHANGED <<stream_configs, sent, mgr, mgrFrame>>

\* lines 145-150: was_live from repository.get
MGet(i) ==
  /\ mloops[i].pc = "get"
  /\ LET e == mloops[i].entry
     IN mloops' = [mloops EXCEPT ![i].pc = "probe",
                                 ![i].was_live = IF e \in DOMAIN stream_configs
                                                 THEN stream_configs[e].is_live ELSE FALSE]
  /\ ghost' = Quiet
  /\ UNCHANGED <<stream_configs, sent, mgr, mgrFrame>>

\* what is_stream_live hands to _check_stream_loop: a bool (no .get, so
\* line 153 raises), a dict, or an exception
MgrResults == {"bool_live", "bool_offline", "dict_live", "dict_offline", "raise"}

\* lines 152-159 and 168-169
MProbe(i, r) ==
  /\ mloops[i].pc = "probe"
  /\ mgr.ticks < MaxMgrTicks
  /\ mgr' = [mgr EXCEPT !.ticks = @ + 1]
  /\ LET cur == r = "dict_live"
     IN mloops' = IF r \notin {"dict_live", "dict_offline"}
                  THEN [mloops EXCEPT ![i] = [NewLoop(@.entry) EXCEPT !.pc = "sleep"]]
                  ELSE [mloops EXCEPT ![i].cur = cur,
                                      ![i].pc = IF cur /\ ~mloops[i].was_live THEN "notify"
                                                ELSE "update"]
  /\ ghost' = Quiet
  /\ UNCHANGED <<stream_configs, sent, mgrFrame>>

\* send_notification, lines 82-102
MNotify(i, delivered) ==
  /\ mloops[i].pc = "notify"
  /\ LET e == mloops[i].entry
     IN /\ sent' = IF delivered THEN [sent EXCEPT ![e] = @ + 1] ELSE sent
        /\ stream_configs' = IF delivered THEN UpdateStatus(stream_configs, e, TRUE)
                              ELSE stream_configs
  /\ mloops' = [mloops EXCEPT ![i].pc = "update"]
  /\ ghost' = Quiet
  /\ UNCHANGED <<mgr, mgrFrame>>

\* lines 161-171: update_status, then the sleep
MUpdate(i) ==
  /\ mloops[i].pc = "update"
  /\ stream_configs' = UpdateStatus(stream_configs, mloops[i].entry, mloops[i].cur)
  /\ mloops' = [mloops EXCEPT ![i] = [NewLoop(@.entry) EXCEPT !.pc = "sleep"]]
  /\ ghost' = Quiet
  /\ UNCHANGED <<sent, mgr, mgrFrame>>

InitMgr ==
  /\ stream_configs \in {sc \in [Entries -> {r \in ConfigRow : r.error_message = "" /\ ~r.is_live}] :
                           sc[E2].is_active}
  /\ stream_status = NoStore
  /\ budget = [probes |-> 0, tasks |-> 0]
  /\ InitService
  /\ InitOther

NextMgr ==
  \/ \E e \in Entries : StartMonitoring(e)
  \/ \E e \in Entries : StopMonitoring(e)
  \/ StartAllBegin
  \/ StartAllGot
  \/ StartAllIter
  \/ StopAllBegin
  \/ StopAllGot
  \/ StopAllIter
  \/ \E i \in 1..Len(mloops) : MTest(i)
  \/ \E i \in 1..Len(mloops) : MGet(i)
  \/ \E i \in 1..Len(mloops) : \E r \in MgrResults : MProbe(i, r)
  \/ \E i \in 1..Len(mloops) : \E d \in BOOLEAN : MNotify(i, d)
  \/ \E i \in 1..Len(mloops) : MUpdate(i)

SpecMgr == InitMgr /\ [][NextMgr]_vars

\* C8: at no time are two _check_stream_loop tasks alive for one key, and
\* once a key is in active_checks no further loop is spawned for it.
C8_OneLoopPerKey ==
  /\ [](\A e \in Entries : Cardinality(AliveLoops(mloops, e)) <= 1)
  /\ [][\A e \in Entries :
          StreamKey(e) \in DOMAIN active_checks => LoopsOf(mloops', e) = LoopsOf(mloops, e)]_vars

\* start_monitoring was called for a key that had been stopped while its
\* loop is still in its sleep, and spawned nothing
C8_Witness ==
  /\ ghost = Did("start_monitoring", E1, "no-op")
  /\ StreamKey(E1) \in DOMAIN active_checks /\ ~active_checks[StreamKey(E1)]
  /\ \E i \in AliveLoops(mloops, E1) : mloops[i].pc = "sleep"
  /\ Cardinality(LoopsOf(mloops, E1)) = 1

\* ------------------------------------------------------------ the polling loop
\* DatabaseService.get_all_active_configs: ... WHERE c.is_active = 1
GetAllActiveConfigs(sc) == SelectSeq(EntryOrder, LAMBDA e : e \in DOMAIN sc /\ sc[e].is_active)

\* DatabaseService.delete_configuration: the config row and its status row
Without(f, e) == [k \in DOMAIN f \ {e} |-> f[k]]

StoredAs(ss, e) == IF e \notin DOMAIN ss THEN "none" ELSE LiveStr(ss[e])

pollFrame == <<svcVars, probes, restVars>>

\* _check_single_stream_status has returned for the head of todo; the for
\* loop of _check_streams_loop, lines 591-605, goes on or reaches the sleep
Finish(p, chan, n) ==
  LET rest == Tail(p.todo)
      over == rest = <<>> \/ ~running
  IN [NoPoll EXCEPT !.pc = IF over THEN "sleep" ELSE "probe",
                    !.todo = IF over THEN <<>> ELSE rest,
                    !.ticks = p.ticks,
                    !.rep = [valid |-> TRUE, arg |-> Name(Head(p.todo)), before |-> p.before,
                             cur |-> p.is_live, chan |-> chan, nsent |-> n]]

\* line 586: the loop test, at the start and after a sleep
PollTest ==
  /\ poll.pc \in {"created", "sleep"}
  /\ poll.ticks < MaxPollTicks
  /\ poll' = [poll EXCEPT !.pc = IF running THEN "fetch" ELSE "done",
                          !.ticks = @ + 1, !.rep = NoReport]
  /\ ghost' = Quiet
  /\ UNCHANGED <<stream_configs, stream_status, sent, pollFrame>>

\* lines 589-593: the configs of this round
PollFetch ==
  /\ poll.pc = "fetch"
  /\ LET configs == GetAllActiveConfigs(stream_configs)
     IN poll' = IF configs = <<>> \/ ~running
                THEN [poll EXCEPT !.pc = "sleep"]
                ELSE [poll EXCEPT !.pc = "probe", !.todo = configs]
  /\ ghost' = Quiet
  /\ UNCHANGED <<stream_configs, stream_status, sent, pollFrame>>

\* lines 630-652: the probe and what is made of its result
PollProbe(r) ==
  /\ poll.pc = "probe"
  /\ poll' = [poll EXCEPT !.pc = "save",
                          !.how = r.how,
                          !.is_live = r.how = "return" /\ r.is_live,
                          !.err = r.error,
                          !.active = ~(r.how = "return" /\ UserNotFound(r.error)),
                          !.before = StoredAs(stream_status, Head(poll.todo)),
                          !.rep = NoReport]
  /\ ghost' = Quiet
  /\ UNCHANGED <<stream_configs, stream_status, sent, pollFrame>>

\* line 655, and the tests of lines 658 and 668
PollSave ==
  /\ poll.pc = "save"
  /\ stream_status' = SaveStreamState(stream_status, Head(poll.todo), poll.is_live)
  /\ poll' = IF ~poll.active \/ poll.err # "none" THEN [poll EXCEPT !.pc = "status"]
             ELSE IF poll.is_live THEN [poll EXCEPT !.pc = "notify"]
             ELSE Finish(poll, FALSE, 0)
  /\ ghost' = Quiet
  /\ UNCHANGED <<stream_configs, sent, pollFrame>>

\* lines 659-665, and the test of line 668
PollStatus ==
  /\ poll.pc = "status"
  /\ stream_configs' = UpdateConfigurationStatus(stream_configs, Head(poll.todo),
                                                 poll.active, poll.err)
  /\ poll' = IF poll.is_live THEN [poll EXCEPT !.pc = "notify"] ELSE Finish(poll, FALSE, 0)
  /\ ghost' = Quiet
  /\ UNCHANGED <<stream_status, sent, pollFrame>>

\* _send_notification, lines 692-706: the channel, then the stored status
PollNotify(chan) ==
  /\ poll.pc = "notify"
  /\ LET last == GetStreamStatus(stream_status, Head(poll.todo))
     IN poll' = IF ~chan THEN Finish(poll, FALSE, 0)
                ELSE IF last.found /\ last.is_live THEN Finish(poll, TRUE, 0)
                ELSE [poll EXCEPT !.pc = "send"]
  /\ ghost' = Quiet
  /\ UNCHANGED <<stream_configs, stream_status, sent, pollFrame>>

\* _send_notification, lines 709-722: channel.send delivers or raises
PollSend(delivered) ==
  /\ poll.pc = "send"
  /\ sent' = IF delivered THEN [sent EXCEPT ![Head(poll.todo)] = @ + 1] ELSE sent
  /\ poll' = Finish(poll, TRUE, IF delivered THEN 1 ELSE 0)
  /\ ghost' = Quiet
  /\ UNCHANGED <<stream_configs, stream_status, pollFrame>>

\* the delete command: DatabaseService.delete_configuration, lines 380-403
DeleteConfiguration(e) ==
  /\ IF e \in DOMAIN stream_configs
     THEN /\ stream_configs' = Without(stream_configs, e)
          /\ stream_status' = IF e \in DOMAIN stream_status THEN Without(stream_status, e)
                              ELSE stream_status
     ELSE UNCHANGED <<stream_configs, stream_status>>
  /\ ghost' = Quiet
  /\ UNCHANGED <<sent, poll, pollFrame>>

InitPoll ==
  /\ stream_configs = [e \in Entries |-> NewRow]
  /\ stream_status \in StatusStores
  /\ budget = [probes |-> 0, tasks |-> 0]
  /\ InitService
  /\ InitOther

NextPoll ==
  \/ StartChecking
  \/ StopChecking
  \/ PollTest
  \/ PollFetch
  \/ \E r \in ProbeResults : PollProbe(r)
  \/ PollSave
  \/ PollStatus
  \/ \E chan \in BOOLEAN : PollNotify(chan)
  \/ \E d \in BOOLEAN : PollSend(d)
  \/ \E e \in Entries : DeleteConfiguration(e)

SpecPoll == InitPoll /\ [][NextPoll]_vars

\* C2: a check of the polling loop whose probe reports live while the stored
\* is_live was false before it, and whose channel exists, has sent exactly
\* one notification and leaves the stored is_live true.
C2_PollNotifiesOnEdge ==
  \A e \in Entries :
    (poll.rep.valid /\ poll.rep.arg = Name(e) /\ poll.rep.cur /\ poll.rep.before = "offline"
       /\ poll.rep.chan)
    => (poll.rep.nsent = 1 /\ GetStreamStatus(stream_status, e).is_live)

\* C26: while no check of the polling loop is under way, an entry whose
\* configuration has been deleted has no stream_status row.
C26_DeletedHasNoStatusRow ==
  \A e \in Entries :
    (e \notin DOMAIN stream_configs /\ poll.pc \notin {"probe", "save", "status", "notify", "send"})
    => e \notin DOMAIN stream_status

\* ------------------------------------------------- claims on the handlers
\* C9: when remove_configuration(guild_id, username, platform) has returned,
\* the entry has no check_tasks value and no check_stream_loop task of the
\* entry is alive.
C9_RemoveStopsTask ==
  \A e \in Entries :
    (ghost.op = "remove_configuration" /\ ghost.arg = Name(e))
    => (/\ ~Has(check_tasks, TaskKey(e))
        /\ \A t \in TaskIds : tasks[t].entry = e => ~Alive(t))

\* C10: when stop_checking is over it has returned, check_tasks is empty,
\* _running is false and no check task is alive.
C10_StopCancelsAll ==
  ghost.op = "stop_checking"
  => (/\ ghost.result = "returned"
      /\ check_tasks = <<>>
      /\ ~running
      /\ \A t \in TaskIds : ~Alive(t))

\* C17: after monitor_health has found the task of an entry stale while the
\* entry's configuration is in the store, a fresh check_stream_loop task of
\* the entry is registered under the entry's key.
C17_StaleTaskRestarted ==
  \A e \in Entries :
    (/\ ghost.op = "monitor_health" /\ ghost.arg = Name(e)
     /\ ghost.result \in {"stale, raised", "stale, no config", "stale, restarted"}
     /\ e \in DOMAIN stream_configs)
    => (/\ Has(check_tasks, TaskKey(e))
        /\ Get(check_tasks, TaskKey(e)).kind = "dict"
        /\ tasks[Get(check_tasks, TaskKey(e)).ref].entry = e
        /\ tasks[Get(check_tasks, TaskKey(e)).ref].pc = "created")

\* C20: get_service_status returns its snapshot, and leaves check_tasks,
\* the StreamCheckStatus objects, _running, service_status and the store as
\* they were.
C20_StatusSnapshotReadOnly ==
  [][ghost'.op = "get_service_status"
       => (/\ ghost'.result = "returned"
           /\ UNCHANGED <<check_tasks, objs, running, service_status,
                          stream_configs, stream_status>>)]_vars

\* ------------------------------------------- starting and stopping, both services
\* the start and stop operations of NotificationService and of
\* NotificationManager, called in any order
\* a check of NotificationService finds the user missing:
\* update_configuration_status(..., False, message), lines 145-150 and 659-665
DeactivateEntry(e) ==
  /\ e \in DOMAIN stream_configs /\ stream_configs[e].is_active
  /\ stream_configs' = UpdateConfigurationStatus(stream_configs, e, FALSE, "user not found")
  /\ ghost' = Quiet
  /\ UNCHANGED <<stream_status, svcAll, sent, mgrVars, poll, bo>>

NextStart ==
  \/ \E e \in Entries : DeactivateEntry(e)
  \/ StartChecking
  \/ StopChecking
  \/ \E e \in Entries : StartMonitoring(e)
  \/ \E e \in Entries : StopMonitoring(e)
  \/ StartAllBegin
  \/ StartAllGot
  \/ StartAllIter
  \/ StopAllBegin
  \/ StopAllGot
  \/ StopAllIter

SpecStart == InitMgr /\ [][NextStart]_vars

\* everything but the record of the last operation
stateVars == <<stream_configs, stream_status, svcVars, probes, budget, sent, mgrVars, poll, bo>>

\* C11: start_all_monitoring called while _is_running is true, and
\* start_checking called while _running is true, change nothing: no task is
\* spawned and no variable of either service or of the store is written.
C11_SecondStartNoOp ==
  [][/\ (ghost'.op = "start_all_monitoring" /\ ghost' # ghost /\ is_running)
          => UNCHANGED stateVars
     /\ (ghost'.op = "start_checking" /\ ghost' # ghost /\ running)
          => UNCHANGED stateVars]_vars

\* both services are running with a loop spawned, start_all_monitoring has
\* been called again, and start_checking right after it
C11_Witness ==
  /\ ghost = [op |-> "start_checking", arg |-> "start_all_monitoring", result |-> "no-op"]
  /\ running /\ main_task = "alive"
  /\ is_running /\ mloops # <<>>

KeyExistsNever(sc, e) == FALSE
KeyExists(sc, e) == e \in DOMAIN sc

BoolStr(b) == IF b THEN "True" ELSE "False"

repoFrame == <<stream_status, svcAll, sent, mgrVars, poll, bo>>

\* SQLiteDatabase.save, lines 122-140: a plain INSERT; the constraint error
\* of a duplicate key is caught and False returned
RepoSave(e) ==
  /\ stream_configs' = IF KeyExists(stream_configs, e) THEN stream_configs
                        ELSE [k \in DOMAIN stream_configs \cup {e} |->
                                IF k = e THEN NewRow ELSE stream_configs[k]]
  /\ ghost' = Did("save", e, BoolStr(~KeyExists(stream_configs, e)))
  /\ UNCHANGED repoFrame

\* SQLiteDatabase.delete, lines 175-187: rowcount > 0
RepoDelete(e) ==
  /\ stream_configs' = Without(stream_configs, e)
  /\ ghost' = Did("delete", e, BoolStr(e \in DOMAIN stream_configs))
  /\ UNCHANGED repoFrame

\* SQLiteDatabase.update_status, lines 189-202
RepoUpdateStatus(e, live) ==
  /\ stream_configs' = UpdateStatus(stream_configs, e, live)
  /\ ghost' = Did("update_status", e, BoolStr(e \in DOMAIN stream_configs))
  /\ UNCHANGED repoFrame

\* the status command, lines 29-35: the rows of get_all() that are of the
\* guild, each shown by StatusEmbed._add_config_field as Active or Inactive,
\* with its error_message if it has one
ServerConfigs(sc, g) == SelectSeq(GetAll(sc), LAMBDA e : e.guild_id = g)
Listed(sc, e) == \E i \in 1..Len(ServerConfigs(sc, e.guild_id)) : ServerConfigs(sc, e.guild_id)[i] = e
ShownAs(row) ==
  IF row.is_active THEN (IF row.error_message # "" THEN "Active, with error" ELSE "Active")
  ELSE (IF row.error_message # "" THEN "Inactive, with error" ELSE "Inactive")

\* /status in the guild of e: how the listing shows e
StatusCommand(e) ==
  /\ ghost' = Did("status", e, IF Listed(stream_configs, e) THEN ShownAs(stream_configs[e])
                               ELSE "not listed")
  /\ UNCHANGED stream_configs
  /\ UNCHANGED repoFrame

InitRepo ==
  /\ stream_configs = [k \in {} |-> NewRow]
  /\ stream_status = NoStore
  /\ budget = [probes |-> 0, tasks |-> 0]
  /\ InitService
  /\ InitOther

NextRepo ==
  \/ \E e \in Entries : RepoSave(e)
  \/ \E e \in Entries : RepoDelete(e)
  \/ \E e \in Entries : \E live \in BOOLEAN : RepoUpdateStatus(e, live)
  \/ \E e \in Entries : DeactivateEntry(e)
  \/ \E e \in Entries : StatusCommand(e)

SpecRepo == InitRepo /\ [][NextRepo]_vars

\* C13: save of a key that has a row returns False and leaves every row as
\* it was; delete of a key that has no row returns False and changes no row.
C13_DuplicateAndMissing ==
  [][\A e \in Entries :
       /\ (ghost'.op = "save" /\ ghost'.arg = Name(e) /\ e \in DOMAIN stream_configs)
            => (ghost'.result = "False" /\ stream_configs' = stream_configs)
       /\ (ghost'.op = "delete" /\ ghost'.arg = Name(e) /\ e \notin DOMAIN stream_configs)
            => (ghost'.result = "False" /\ stream_configs' = stream_configs)]_vars

\* save was refused for E1, whose row is no longer what an insert writes,
\* while E2 has no row
C13_Witness ==
  /\ ghost = Did("save", E1, "False")
  /\ E1 \in DOMAIN stream_configs /\ stream_configs[E1].is_live /\ ~stream_configs[E1].is_active
  /\ E2 \notin DOMAIN stream_configs

\* C19: /status in the guild of an entry whose row is still in the store
\* with is_active false and an error_message shows the entry, as inactive
\* and with that error_message.
C19_InactiveListed ==
  \A e \in Entries :
    (/\ ghost.op = "status" /\ ghost.arg = Name(e)
     /\ e \in DOMAIN stream_configs
     /\ ~stream_configs[e].is_active /\ stream_configs[e].error_message # "")
    => ghost.result = "Inactive, with error"

\* C14: while active_checks[key] is False, which is how stop_monitoring
\* leaves it, the loop of that key takes no step that probes, notifies or
\* writes a status.
C14_StoppedLoopIsQuiet ==
  [][\A i \in 1..Len(mloops) :
       ~ActiveCheck(active_checks, StreamKey(mloops[i].entry))
       => ~(mloops[i].pc \in {"probe", "notify", "update"} /\ mloops'[i] # mloops[i])]_vars

\* ------------------------------------------------ claims on the error path
\* C15: a probe that fails with an error other than "user not found" adds
\* one to consecutive_errors and to error_count, records the error in
\* last_error and leaves the entry's row alone; handle_check_error then
\* leaves the row and check_tasks alone, and the task goes into its backoff
\* sleep and from there to the next probe.
C15_TransientErrorsRetried ==
  [][\A t \in TaskIds :
       /\ (tasks[t].pc = "probe" /\ tasks'[t] # tasks[t] /\ tasks'[t].res \in {"error", "raise"})
            => /\ tasks'[t].pc = "herr"
               /\ StatusOf(t)'.consecutive_errors = StatusOf(t).consecutive_errors + 1
               /\ StatusOf(t)'.error_count = StatusOf(t).error_count + 1
               /\ StatusOf(t)'.last_error = "timeout"
               /\ stream_configs' = stream_configs
       /\ (tasks[t].pc = "herr" /\ tasks'[t] # tasks[t] /\ tasks[t].res \in {"error", "raise"})
            => /\ tasks'[t].pc = "backoff"
               /\ stream_configs' = stream_configs
               /\ check_tasks' = check_tasks
       /\ (tasks[t].pc = "backoff" /\ tasks'[t] # tasks[t])
            => tasks'[t].pc = "probe"]_vars

\* three probes in a row have failed and the task is about to probe again
C15_Witness ==
  \E t \in TaskIds :
    /\ tasks[t].pc = "probe" /\ tasks[t].res \in {"error", "raise"}
    /\ StatusOf(t).consecutive_errors = 3 /\ StatusOf(t).error_count = 3
    /\ StatusOf(t).success_count = 0 /\ StatusOf(t).last_error = "timeout"
    /\ stream_configs[tasks[t].entry].is_active

\* C16: when the delivery of an offline-to-live tick fails (guild, channel or
\* role missing, or channel.send raising), the tick still counts as a success
\* and leaves is_live true, and the dispatcher is entered only from a tick
\* that finds is_live false and has had no attempt since the last offline
\* probe: the live ticks that follow a failed delivery attempt nothing.
C16_FailedDeliveryNotRetried ==
  [][\A t \in TaskIds :
       /\ (tasks[t].pc = "send" /\ tasks'[t].pc = "save")
            => /\ StatusOf(t)'.is_live
               /\ StatusOf(t)'.consecutive_errors = 0
               /\ StatusOf(t)'.success_count = StatusOf(t).success_count
               /\ StatusOf(t)'.error_count = StatusOf(t).error_count
               /\ sent' = sent
       /\ (tasks[t].pc = "log" /\ tasks'[t].pc = "send")
            => (~StatusOf(t).is_live /\ tasks[t].runFired = 0)]_vars

\* the one delivery attempt failed, and a second live tick has gone by
\* without another
C16_Witness ==
  \E t \in TaskIds :
    /\ tasks[t].pc = "sleep" /\ tasks[t].cur = "live" /\ tasks[t].prior = "live"
    /\ tasks[t].fired = 1 /\ sent[tasks[t].entry] = 0
    /\ StatusOf(t).is_live /\ StatusOf(t).success_count = 2 /\ StatusOf(t).error_count = 0

\* ----------------------------------------------------------- SpecInterval
DefaultCheckIntervals == [live |-> DefaultLive, offline |-> DefaultOffline, night |-> DefaultNight]
DefaultNightMode == [enabled |-> FALSE, start_hour |-> DefaultStartHour, end_hour |-> DefaultEndHour]

\* night windows a configuration may carry (update_night_mode takes any two
\* hours): over midnight, within one day, and empty
NightWindows == {<<20, 8>>, <<22, 6>>, <<1, 5>>, <<0, 0>>}
NightModes == {[enabled |-> b, start_hour |-> w[1], end_hour |-> w[2]] : b \in BOOLEAN, w \in NightWindows}
CustomCheckIntervals == [live |-> 600, offline |-> 60, night |-> 3600]
Hours == 0..23

\* a configuration, as far as get_check_interval reads it; has_nm and has_ci
\* say whether the keys "night_mode" and "check_intervals" are present
IntervalConfigs ==
  { [is_live |-> l, has_nm |-> TRUE, nm |-> n, has_ci |-> c,
     ci |-> IF c THEN CustomCheckIntervals ELSE DefaultCheckIntervals] :
      l \in BOOLEAN, n \in NightModes, c \in BOOLEAN }
  \cup
  { [is_live |-> l, has_nm |-> FALSE, nm |-> DefaultNightMode, has_ci |-> c,
     ci |-> IF c THEN CustomCheckIntervals ELSE DefaultCheckIntervals] :
      l \in BOOLEAN, c \in BOOLEAN }

\* lines 83-90
NightModeOf(cfg) == IF cfg.has_nm THEN cfg.nm ELSE DefaultNightMode
IsNight(cfg, hour) ==
  LET nm == NightModeOf(cfg)
  IN nm.enabled /\ (hour >= nm.start_hour \/ hour < nm.end_hour)

\* lines 80-81 and 92-97
CheckIntervalsOf(cfg) == IF cfg.has_ci THEN cfg.ci ELSE DefaultCheckIntervals
GetCheckIntervalLiveFirst(cfg, hour) ==
  IF cfg.is_live THEN CheckIntervalsOf(cfg).live
  ELSE IF IsNight(cfg, hour) THEN CheckIntervalsOf(cfg).night
  ELSE CheckIntervalsOf(cfg).offline
GetCheckInterval(cfg, hour) ==
  IF IsNight(cfg, hour) THEN CheckIntervalsOf(cfg).night
  ELSE IF cfg.is_live THEN CheckIntervalsOf(cfg).live
  ELSE CheckIntervalsOf(cfg).offline

InitInterval ==
  /\ stream_configs = [e \in Entries |-> NewRow]
  /\ stream_status = NoStore
  /\ budget = [probes |-> 0, tasks |-> 0]
  /\ InitService
  /\ active_checks = <<>>
  /\ is_running = FALSE
  /\ mloops = <<>>
  /\ mgr = [start |-> "idle", start_todo |-> <<>>, skipped |-> {}, stop |-> "idle",
            stop_todo |-> <<>>, ticks |-> 0]
  /\ poll = NoPoll
  /\ bo \in [cfg : IntervalConfigs, hour : Hours, interval : {0}, done : {FALSE}]

\* lines 80-81: a configuration without "check_intervals" is given the key,
\* holding a copy of the defaults
WithCheckIntervals(cfg) ==
  IF cfg.has_ci THEN cfg ELSE [cfg EXCEPT !.has_ci = TRUE, !.ci = DefaultCheckIntervals]

\* get_check_interval(config) at a given hour of the day
CheckInterval ==
  /\ ~bo.done
  /\ bo' = [bo EXCEPT !.interval = GetCheckInterval(bo.cfg, bo.hour), !.done = TRUE,
                       !.cfg = WithCheckIntervals(bo.cfg)]
  /\ UNCHANGED <<stream_configs, stream_status, svcVars, probes, budget, sent, ghost,
                 mgrVars, poll>>

NextInterval == CheckInterval

SpecInterval == InitInterval /\ [][NextInterval]_vars

\* C18: with night mode enabled and the hour inside the night window
\* (start to end, over midnight when start is the later hour) the result is
\* the night interval whether the stream is live or not; with night mode
\* disabled or absent, and outside a window that runs over midnight, it is
\* the live interval for a live stream and the offline interval otherwise.
C18_NightOverrides ==
  bo.done =>
    LET nm == NightModeOf(bo.cfg)
        ci == CheckIntervalsOf(bo.cfg)
        inWindow == IF nm.start_hour <= nm.end_hour
                    THEN bo.hour >= nm.start_hour /\ bo.hour < nm.end_hour
                    ELSE bo.hour >= nm.start_hour \/ bo.hour < nm.end_hour
        byLiveness == IF bo.cfg.is_live THEN ci.live ELSE ci.offline
    IN /\ (nm.enabled /\ inWindow) => bo.interval = ci.night
       /\ ~nm.enabled => bo.interval = byLiveness
       /\ (nm.start_hour > nm.end_hour /\ ~inWindow) => bo.interval = byLiveness

\* a live stream at 23 h with the window 20 to 8 gets the night interval
C18_Witness ==
  /\ bo.done /\ bo.cfg.is_live /\ bo.hour = 23
  /\ bo.cfg.has_nm /\ bo.cfg.nm = [enabled |-> TRUE, start_hour |-> 20, end_hour |-> 8]
  /\ bo.cfg.has_ci /\ bo.interval = 3600

\* -------------------------------------------------------------- SpecStore
\* one check loop whose write-through may fail.
\* line 186: save_stream_state raises (DatabaseService.save_stream_state has
\* no handler of its own); status.is_live was assigned at line 184, the
\* handler at 194-197 counts the tick as an error
SaveRaises(t) ==
  /\ tasks[t].pc = "save"
  /\ LET o == tasks[t].obj
     IN /\ objs' = [objs EXCEPT ![o].error_count = @ + 1,
                                ![o].consecutive_errors = @ + 1,
                                ![o].last_error = "database error"]
        /\ tasks' = [tasks EXCEPT ![t].pc = "herr", ![t].res = "raise", ![t].cur = "error",
                                  ![t].streak = IF objs[o].consecutive_errors = 0 THEN <<>> ELSE @]
  /\ ghost' = Quiet
  /\ UNCHANGED <<stream_configs, stream_status, check_tasks, running, service_status,
                 main_task, pending, probes, sent, otherVars>>

NextStore ==
  \/ NextTicks
  \/ \E t \in TaskIds : SaveRaises(t)

SpecStore == InitStreak /\ [][NextStore]_vars

\* C21: whenever a check_stream_loop task is in its interval sleep or its
\* backoff sleep, the entry has a stream_status row and its is_live is the
\* is_live of the task's StreamCheckStatus.
C21_StoreMirrorsStatus ==
  \A t \in TaskIds :
    tasks[t].pc \in {"sleep", "backoff"}
    => (/\ GetStreamStatus(stream_status, tasks[t].entry).found
        /\ GetStreamStatus(stream_status, tasks[t].entry).is_live = StatusOf(t).is_live)

\* ------------------------------------------------------------- SpecCancel
\* one check loop that may be cancelled.
\* task.cancel() on a check_stream_loop task, as update_configuration (line
\* 527), handle_configuration_toggle (line 516) and stop_checking (line 384)
\* call it on the task they hold: CancelledError is raised at the await the
\* task is suspended at, and no handler of the loop or of
\* handle_stream_state_change catches it
CancelTask(t) ==
  /\ Alive(t)
  /\ tasks' = Cancel(tasks, t)
  /\ ghost' = Quiet
  /\ UNCHANGED <<stream_configs, stream_status, check_tasks, objs, running, service_status,
                 main_task, pending, probes, sent, otherVars>>

NextCancel ==
  \/ NextTicks
  \/ \E t \in TaskIds : CancelTask(t)

SpecCancel == InitStreak /\ [][NextCancel]_vars

\* C22: a cancelled check_stream_loop task that has delivered the
\* notification of the live run it was in (every attempt of the task was
\* delivered, and one was made since the last offline probe) leaves the
\* persisted is_live of its entry true.
C22_CancelLeavesSentPersisted ==
  \A t \in TaskIds :
    (/\ tasks[t].pc = "cancelled" /\ tasks[t].cur = "live"
     /\ tasks[t].runFired = 1 /\ sent[tasks[t].entry] = tasks[t].fired)
    => GetStreamStatus(stream_status, tasks[t].entry).is_live

\* ---------------------------------------------------------------- SpecAdd
\* the polling loop together with add_configuration, which runs a check of
\* its own in the coroutine of its caller
addFrame == <<check_tasks, tasks, objs, running, service_status, main_task, probes,
              restVars, poll>>

\* add_configuration, lines 556-570: a value found under
\* f"{guild_id}_{platform}_{username}" has no done(), which raises; while the
\* service runs, _check_single_stream_status is entered and calls the probe
AddConfiguration(e) ==
  /\ pending.add.pc = "none"
  /\ pending' = IF ~Has(check_tasks, ConfigKey(e)) /\ running
                THEN [pending EXCEPT !.add = [NoAdd EXCEPT !.pc = "probe", !.entry = e]]
                ELSE pending
  /\ ghost' = Quiet
  /\ UNCHANGED <<stream_configs, stream_status, sent, addFrame>>

\* lines 630-652: the probe and what is made of its result
AddProbe(r) ==
  /\ pending.add.pc = "probe"
  /\ pending' = [pending EXCEPT !.add.pc = "save",
                                !.add.is_live = r.how = "return" /\ r.is_live,
                                !.add.err = r.error,
                                !.add.active = ~(r.how = "return" /\ UserNotFound(r.error))]
  /\ ghost' = Quiet
  /\ UNCHANGED <<stream_configs, stream_status, sent, addFrame>>

\* line 655, and the tests of lines 658 and 668
AddSave ==
  /\ pending.add.pc = "save"
  /\ stream_status' = SaveStreamState(stream_status, pending.add.entry, pending.add.is_live)
  /\ pending' = IF ~pending.add.active \/ pending.add.err # "none"
                THEN [pending EXCEPT !.add.pc = "status"]
                ELSE IF pending.add.is_live THEN [pending EXCEPT !.add.pc = "notify"]
                ELSE [pending EXCEPT !.add = NoAdd]
  /\ ghost' = Quiet
  /\ UNCHANGED <<stream_configs, sent, addFrame>>

\* lines 659-665, and the test of line 668
AddStatus ==
  /\ pending.add.pc = "status"
  /\ stream_configs' = UpdateConfigurationStatus(stream_configs, pending.add.entry,
                                                 pending.add.active, pending.add.err)
  /\ pending' = IF pending.add.is_live THEN [pending EXCEPT !.add.pc = "notify"]
                ELSE [pending EXCEPT !.add = NoAdd]
  /\ ghost' = Quiet
  /\ UNCHANGED <<stream_status, sent, addFrame>>

\* _send_notification, lines 692-706
AddNotify(chan) ==
  /\ pending.add.pc = "notify"
  /\ LET last == GetStreamStatus(stream_status, pending.add.entry)
     IN pending' = IF ~chan \/ (last.found /\ last.is_live) THEN [pending EXCEPT !.add = NoAdd]
                   ELSE [pending EXCEPT !.add.pc = "send"]
  /\ ghost' = Quiet
  /\ UNCHANGED <<stream_configs, stream_status, sent, addFrame>>

\* _send_notification, lines 709-722
AddSend(delivered) ==
  /\ pending.add.pc = "send"
  /\ sent' = IF delivered THEN [sent EXCEPT ![pending.add.entry] = @ + 1] ELSE sent
  /\ pending' = [pending EXCEPT !.add = NoAdd]
  /\ ghost' = Quiet
  /\ UNCHANGED <<stream_configs, stream_status, addFrame>>

\* one stored entry, which the loop polls
InitAdd ==
  /\ stream_configs = [e \in {E1} |-> NewRow]
  /\ stream_status \in [{E1} -> BOOLEAN]
  /\ budget = [probes |-> 0, tasks |-> 0]
  /\ InitService
  /\ InitOther

NextAdd ==
  \/ (~running /\ StartChecking)
  \/ PollTest
  \/ PollFetch
  \/ \E r \in ProbeResults : PollProbe(r)
  \/ PollSave
  \/ PollStatus
  \/ \E chan \in BOOLEAN : PollNotify(chan)
  \/ \E d \in BOOLEAN : PollSend(d)
  \/ \E e \in Entries : AddConfiguration(e)
  \/ \E r \in ProbeResults : AddProbe(r)
  \/ AddSave
  \/ AddStatus
  \/ \E chan \in BOOLEAN : AddNotify(chan)
  \/ \E d \in BOOLEAN : AddSend(d)

SpecAdd == InitAdd /\ [][NextAdd]_vars

\* C23: the polling loop and an add_configuration call never both have a
\* probe call in flight for the same entry.
C23_NoOverlappingProbes ==
  ~(/\ poll.pc = "probe" /\ pending.add.pc = "probe"
    /\ Head(poll.todo) = pending.add.entry)

\* ------------------------------------------------------------- SpecAddCmd
\* the add-configuration command (commands/add_config_command.py), several
\* at a time, over SQLiteDatabase and NotificationManager
cmdFrame == <<stream_status, check_tasks, tasks, objs, running, service_status, main_task,
              probes, budget, sent, is_running, mgr, poll, bo>>

\* `if await bot.db_service.save(config):`
CmdProceedsAlways(saved) == TRUE
CmdProceeds(saved) == saved

\* lines 48-59: db_service.get; a row found ends the command
AddCmdGet(c, e) ==
  /\ pending.cmds[c].pc = "none"
  /\ pending' = [pending EXCEPT !.cmds[c] =
                   [pc |-> IF KeyExists(stream_configs, e) THEN "exists" ELSE "save",
                    entry |-> e]]
  /\ ghost' = Quiet
  /\ UNCHANGED <<stream_configs, active_checks, mloops, cmdFrame>>

\* lines 79-80: db_service.save, a plain INSERT that returns False on a
\* duplicate key
AddCmdSave(c) ==
  /\ pending.cmds[c].pc = "save"
  /\ LET e == pending.cmds[c].entry
         ok == ~KeyExists(stream_configs, e)
     IN /\ stream_configs' = IF ok THEN [k \in DOMAIN stream_configs \cup {e} |->
                                          IF k = e THEN NewRow ELSE stream_configs[k]]
                             ELSE stream_configs
        /\ pending' = [pending EXCEPT !.cmds[c].pc = IF CmdProceeds(ok) THEN "start" ELSE "failed"]
  /\ ghost' = Quiet
  /\ UNCHANGED <<active_checks, mloops, cmdFrame>>

\* lines 81-82: notification_manager.start_monitoring(config)
AddCmdStart(c) ==
  /\ pending.cmds[c].pc = "start"
  /\ DoStartMonitoring(pending.cmds[c].entry, "add_command")
  /\ pending' = [pending EXCEPT !.cmds[c].pc = "done"]
  /\ UNCHANGED <<stream_configs, cmdFrame>>

InitAddCmd ==
  /\ stream_configs \in {[k \in D |-> NewRow] : D \in SUBSET {E2}}
  /\ stream_status = NoStore
  /\ budget = [probes |-> 0, tasks |-> 0]
  /\ InitService
  /\ InitOther

NextAddCmd ==
  \/ \E c \in 1..MaxCmds, e \in Entries : AddCmdGet(c, e)
  \/ \E c \in 1..MaxCmds : AddCmdSave(c)
  \/ \E c \in 1..MaxCmds : AddCmdStart(c)

SpecAddCmd == InitAddCmd /\ [][NextAddCmd]_vars

\* C24: of the add commands for one key at most one has its save accepted
\* and goes on to start_monitoring, at most one loop exists for the key, and
\* once a command for the key has got past its save the key has its row.
C24_ConcurrentAddsOneRow ==
  \A e \in Entries :
    LET of == {c \in 1..MaxCmds : pending.cmds[c].pc # "none" /\ pending.cmds[c].entry = e}
    IN /\ Cardinality({c \in of : pending.cmds[c].pc \in {"start", "done"}}) <= 1
       /\ Cardinality(LoopsOf(mloops, e)) <= 1
       /\ (\E c \in of : pending.cmds[c].pc \in {"exists", "start", "failed", "done"})
            => e \in DOMAIN stream_configs

\* both commands for E1 passed the existence check; one saved and started
\* the loop, the other had its save refused
C24_Witness ==
  /\ pending.cmds[1] = [pc |-> "failed", entry |-> E1]
  /\ pending.cmds[2] = [pc |-> "done", entry |-> E1]
  /\ E1 \in DOMAIN stream_configs /\ Cardinality(LoopsOf(mloops, E1)) = 1

\* ------------------------------------------------ claims on the first tick
\* C25: a check_stream_loop task that reads the prior state of an entry
\* without stream_status row while the service runs goes on to its first
\* probe with is_live false.
C25_NoRowStartsOffline ==
  [][\A t \in TaskIds :
       (/\ tasks[t].pc = "init" /\ tasks'[t] # tasks[t] /\ running
        /\ ~GetStreamStatus(stream_status, tasks[t].entry).found)
       => (tasks'[t].pc = "probe" /\ ~StatusOf(t)'.is_live)]_vars

\* ----------------------------------------------------------- SpecPlatform
\* one check loop over the platform classes of the repository.
\* what the remote side does on a probe: the stream is live or offline, the
\* call times out or fails on the network, the API answers with a status
\* other than 200, or the identity does not exist
Outcomes == {"live", "offline", "timeout", "http_error", "no_such_user"}
Faults == {"timeout", "http_error"}

\* TwitchPlatform.is_stream_live, lines 53-105: `return False` on a status
\* other than 200 (73-76, 88-91), on an empty user list (79-81) and on any
\* exception (103-105); KickPlatform.is_stream_live (lines 13-27) and
\* TikTokPlatform.is_stream_live (lines 35-56) end in the same
\* `except Exception: return False`
IsStreamLive(out) == [how |-> "return", is_live |-> out = "live", error |-> "none"]

\* line 138 with the platform of the repository behind it; bo.out is what the
\* remote side does in this run
PlatformProbe(t) == Probe(t, IsStreamLive(bo.out))

\* the steps of check_stream_loop; its except branch is never entered, since
\* is_stream_live neither raises nor returns a dict
PlatformStep(t) ==
  \/ Start(t)
  \/ LoadPrev(t)
  \/ PlatformProbe(t)
  \/ AfterLog(t)
  \/ \E d \in Deliveries : Send(t, d)
  \/ DSave(t)
  \/ Save(t)
  \/ Wake(t)

InitPlatform ==
  /\ stream_configs = [e \in Entries |-> NewRow]
  /\ stream_status \in StatusStores
  /\ budget = [probes |-> MaxStreakProbes, tasks |-> 1]
  /\ InitService
  /\ active_checks = <<>>
  /\ is_running = FALSE
  /\ mloops = <<>>
  /\ mgr = [start |-> "idle", start_todo |-> <<>>, skipped |-> {}, stop |-> "idle",
            stop_todo |-> <<>>, ticks |-> 0]
  /\ poll = NoPoll
  /\ bo \in [out : Outcomes]

NextPlatform ==
  \/ \E t \in TaskIds : PlatformStep(t)
  \/ \E e \in Entries : AddNewConfiguration(e)
  \/ (~running /\ StartChecking)

SpecPlatform == InitPlatform /\ [][NextPlatform]_vars

\* C27: when the probes of a task meet a fault (timeout, network error,
\* unexpected HTTP status), no probe of the task is counted as a success and
\* every probe that has returned has been counted as an error.
C27_FaultFeedsBackoff ==
  \A t \in TaskIds :
    (bo.out \in Faults /\ tasks[t].obj # 0)
    => (/\ StatusOf(t).success_count = 0
        /\ (tasks[t].res # "none" => StatusOf(t).consecutive_errors >= 1))

\* C28: when the identity does not exist, a task whose probe has returned
\* has left the entry deactivated, or is in handle_check_error about to
\* deactivate it.
C28_MissingUserDeactivated ==
  \A t \in TaskIds :
    (bo.out = "no_such_user" /\ tasks[t].res # "none" /\ tasks[t].pc # "herr")
    => ~stream_configs[tasks[t].entry].is_active

\* C29: a task sleeping its regular interval has just completed a successful
\* tick, and last_error of its status is then empty.
C29_SuccessClearsLastError ==
  \A t \in TaskIds :
    tasks[t].pc = "sleep" => StatusOf(t).last_error = "none"

\* C30: with night mode enabled and the hour outside the window from
\* start_hour to end_hour (a window within one day when start_hour is the
\* earlier hour), get_check_interval returns the live interval for a live
\* stream and the offline interval otherwise.
C30_OutsideWindowByLiveness ==
  (bo.done /\ NightModeOf(bo.cfg).enabled)
  => LET nm == NightModeOf(bo.cfg)
         ci == CheckIntervalsOf(bo.cfg)
     IN (IF nm.start_hour > nm.end_hour
         THEN bo.hour < nm.start_hour /\ bo.hour >= nm.end_hour
         ELSE bo.hour < nm.start_hour \/ bo.hour >= nm.end_hour)
        => bo.interval = (IF bo.cfg.is_live THEN ci.live ELSE ci.offline)

\* C31: get_check_interval leaves the configuration it is given as it was.
C31_ConfigNotModified ==
  [][bo'.cfg = bo.cfg]_vars

\* --------------------------------------------------------------- SpecJson
\* ConfigurationService: the list data["stream_configs"] of the JSON file.
\* the entries the commands can ask for: two guilds, two profiles
JsonEntries == [guild_id : {1, 2}, platform : Platforms, username : {"x"}]
JsonConfig(e) == [guild_id |-> e.guild_id, profile_url |-> ProfileUrl(e), is_live |-> FALSE]

\* the first index of the list whose profile_url is url, 0 if there is none
UrlIndex(configs, url) ==
  IF \E i \in 1..Len(configs) : configs[i].profile_url = url
  THEN CHOOSE i \in 1..Len(configs) :
         /\ configs[i].profile_url = url
         /\ \A j \in 1..(i - 1) : configs[j].profile_url # url
  ELSE 0

\* save_configuration, lines 59-73: the first element with the profile_url
\* of the new configuration is replaced by it, else it is appended
JsonSaveConfiguration(e) ==
  /\ LET i == UrlIndex(bo.configs, ProfileUrl(e))
     IN bo' = [configs |-> IF i = 0 THEN Append(bo.configs, JsonConfig(e))
                           ELSE [bo.configs EXCEPT ![i] = JsonConfig(e)],
               last |-> [op |-> "save_configuration", guild_id |-> e.guild_id]]
  /\ UNCHANGED <<stream_configs, stream_status, svcVars, probes, budget, sent, ghost,
                 mgrVars, poll>>

\* save_stream_state, lines 125-131: is_live of the first element with the
\* profile_url
JsonSaveStreamState(e, live) ==
  /\ LET i == UrlIndex(bo.configs, ProfileUrl(e))
     IN bo' = [configs |-> IF i = 0 THEN bo.configs
                           ELSE [bo.configs EXCEPT ![i].is_live = live],
               last |-> [op |-> "save_stream_state", guild_id |-> e.guild_id]]
  /\ UNCHANGED <<stream_configs, stream_status, svcVars, probes, budget, sent, ghost,
                 mgrVars, poll>>

InitJson ==
  /\ stream_configs = [k \in {} |-> NewRow]
  /\ stream_status = NoStore
  /\ budget = [probes |-> 0, tasks |-> 0]
  /\ InitService
  /\ active_checks = <<>>
  /\ is_running = FALSE
  /\ mloops = <<>>
  /\ mgr = [start |-> "idle", start_todo |-> <<>>, skipped |-> {}, stop |-> "idle",
            stop_todo |-> <<>>, ticks |-> 0]
  /\ poll = NoPoll
  /\ bo = [configs |-> <<>>, last |-> [op |-> "none", guild_id |-> 0]]

NextJson ==
  \/ \E e \in JsonEntries : JsonSaveConfiguration(e)
  \/ \E e \in JsonEntries : \E live \in BOOLEAN : JsonSaveStreamState(e, live)

SpecJson == InitJson /\ [][NextJson]_vars

\* C32: save_configuration for one guild leaves every stored entry of
\* another guild in the list as it was.
C32_OtherGuildUntouched ==
  [][bo'.last.op = "save_configuration"
     => \A i \in 1..Len(bo.configs) :
          bo.configs[i].guild_id # bo'.last.guild_id
          => \E j \in 1..Len(bo'.configs) : bo'.configs[j] = bo.configs[i]]_vars

\* C33: a call of start_monitoring for an active entry, on its own or from
\* start_all_monitoring, leaves the entry's key switched on in active_checks
\* and a _check_stream_loop alive for it, also when the key was stopped
\* before.
C33_StartResumes ==
  [][\A e \in Entries :
       (/\ ghost'.op \in {"start_monitoring", "start_all_monitoring.each"} /\ ghost'.arg = Name(e)
        /\ e \in DOMAIN stream_configs /\ stream_configs[e].is_active)
       => (/\ ActiveCheck(active_checks', StreamKey(e))
           /\ AliveLoops(mloops', e) # {})]_vars

\* ------------------------------------------------------------- SpecHealth
\* the check tasks besides monitor_health: entries are registered by
\* add_new_configuration (a StreamCheckStatus under the key) or by
\* handle_configuration_toggle (a dict under the key)
NextHealth ==
  \/ \E t \in TaskIds : TaskStep(t)
  \/ \E e \in Entries : AddNewConfiguration(e)
  \/ \E e \in Entries : ToggleEnableBegin(e)
  \/ \E e \in Entries : ToggleEnableEnd(e)
  \/ \E e \in Entries, stale \in BOOLEAN : MonitorHealth(e, stale)
  \/ (~running /\ StartChecking)

SpecHealth == Init /\ [][NextHealth]_vars

C35_RaisedProbeKeepsStored ==
  [][(poll.pc = "save" /\ poll.how = "raise" /\ poll' # poll)
     => \A e \in Entries :
          GetStreamStatus(stream_status', e).is_live = GetStreamStatus(stream_status, e).is_live]_vars

\* C36: an entry whose row says is_active = false with the error
\* "user not found" is not written back to is_active = true by a step of the
\* polling loop or of add_configuration's check.
C36_DeactivatedStaysInactive ==
  [][\A e \in DOMAIN stream_configs :
       (~stream_configs[e].is_active /\ UserNotFound(stream_configs[e].error_message))
       => (e \in DOMAIN stream_configs' /\ ~stream_configs'[e].is_active)]_vars

\* C37: the ticks counted by the status of the one task are no more than
\* the probe calls made (no tick is counted as a success and as an error),
\* consecutive_errors is at most error_count, and it is 0 while the task
\* sleeps the interval that follows a successful tick.
C37_TickCountedOnce ==
  \A t \in TaskIds :
    tasks[t].obj # 0
    => (/\ StatusOf(t).success_count + StatusOf(t).error_count <= probes
        /\ StatusOf(t).consecutive_errors <= StatusOf(t).error_count
        /\ (tasks[t].pc = "sleep" => StatusOf(t).consecutive_errors = 0))

\* C38: the StreamCheckStatus of a check_stream_loop task that has ended
\* (by break, return, the loop test, an exception or cancellation) does not
\* say Running.
C38_RunningOnlyWhileAlive ==
  \A t \in TaskIds :
    (Done(t) /\ tasks[t].obj # 0) => StatusOf(t).status # "Running"

\* C39: service_status of NotificationService is Running exactly when
\* _running is true.
C39_StatusFollowsRunning ==
  (service_status = "Running") <=> running

====
